---- MODULE Spec2Model ----
(***************************************************************************)
(* Model of src/backend/uniswap-backend.py: the FastAPI service that       *)
(* rate-limits requests (rate_limit_dep), quotes, builds, fills            *)
(* (with_fees_and_nonce), signs and submits (send_signed) swap, approve    *)
(* and permit transactions for the one process signer.                     *)
(*                                                                         *)
(* Requests are numbered; each is served by one process (a uvicorn worker  *)
(* or a Lambda instance).  rate_limit_dep is an `async def` with no await  *)
(* in it, so inside one process it runs to completion on the event loop;   *)
(* the DynamoDB calls of different processes interleave.  The endpoint     *)
(* functions are plain `def`s, run in the thread pool: their outbound      *)
(* calls (quoter, get_transaction_count, send_raw_transaction) are the     *)
(* points where requests interleave.                                       *)
(*                                                                         *)
(* The model takes API_KEY unset (auth_dep returns at line 311) and a      *)
(* configured signer (acct is not None).                                   *)
(*                                                                         *)
(* encode_v3_path and suggest_fees are pure given their arguments and the  *)
(* node's answers; PathSpec and FeeSpec apply them to drawn inputs.        *)
(***************************************************************************)
EXTENDS Integers, Sequences, FiniteSets, TLC

\* ---------------------------------------------------------------- bounds

\* Number of requests of one run.
NumReqs == 3
\* Requests of the runs that follow requests into the endpoints.
NumTxReqs == 2
\* The clock (seconds) runs from 0 to MaxNow.
MaxNow == 2
\* RATE_LIMIT and RATE_WINDOW are read from the environment (lines 113-114,
\* default 60 and 60); the model runs the service configured with small values.
RATE_LIMIT == 1
RATE_WINDOW == 2
\* Transaction count of the signer when the service starts.
StartCount == 7

Reqs == 1..NumReqs
Procs == {"p1", "p2"}

\* Python's None, for Optional fields and values not set yet.
None == 0 - 1

\* Header X-API-Key (None: absent) and request.client.host.
ApiKeys == {None, 101}
Hosts == {201}

\* The endpoints that build, sign and send a transaction.
SwapKinds == {"v2_swap", "v3_swap", "v3_swap_multi"}
TxKinds == SwapKinds \cup {"approve", "erc20_permit_submit"}

VARIABLES
    now,          \* int(time.time())
    rate_table,   \* the DynamoDB table RATE_TABLE: key -> item, or NoItem
    rate_on,      \* whether rate_table is configured (line 125)
    rate_cache,   \* _rate_cache of each process: (ident, window) -> count
    req,          \* the requests: inputs, locals and position of each
    chain_count,  \* w3.eth.get_transaction_count(acct.address)
    pool,         \* nonces of the signer's transactions waiting in the mempool
    alloc_log,    \* the nonces handed out by with_fees_and_nonce, in order
    private_rpc,  \* whether PRIVATE_RPC_URL is set (line 117)
    path_call,    \* a call of encode_v3_path: its arguments and its result
    fee_call      \* a call of suggest_fees: the node's answers and its result

vars == <<now, rate_table, rate_on, rate_cache, req, chain_count, pool, alloc_log,
          private_rpc, path_call, fee_call>>

NoItem == [window |-> None, count |-> None]

\* ------------------------------------------------------- rate limiter (306-358)

\* _rate_key (316-317): f"rate::{key}"
_rate_key(key) == <<"rate::", key>>

\* line 321: request.headers.get('X-API-Key') or request.client.host or 'anon'
Ident(api_key, host) ==
    IF api_key # None THEN api_key ELSE IF host # None THEN host ELSE 0

\* line 323: window = now // RATE_WINDOW
WindowOf(t) == t \div RATE_WINDOW

EmptyCache == [k \in {} |-> 0]

\* _rate_cache.get(key, 0)
CacheGet(c, k) == IF k \in DOMAIN c THEN c[k] ELSE 0

\* _rate_cache[key] = cnt
CacheSet(c, k, v) == [x \in (DOMAIN c) \cup {k} |-> IF x = k THEN v ELSE c[x]]

\* Faulty variant of CacheGC: the test of line 355 inverted.
CacheGCInverted(c, window) == [x \in {y \in DOMAIN c : y[2] # window} |-> c[x]]

\* lines 354-356: pop every key whose window is not the request's window
CacheGC(c, window) == [x \in {y \in DOMAIN c : y[2] = window} |-> c[x]]

\* lines 357-358 (and 342-343): the 429 test
OverLimit(cnt) == cnt > RATE_LIMIT

\* Faulty variant of AfterDependencies: the endpoint runs whatever the dependencies did.
AfterDependenciesIgnored(admit) == "handler"

\* FastAPI runs the endpoint function only when every dependency of
\* app = FastAPI(dependencies=[...]) (line 361) returned without raising.
AfterDependencies(admit) == IF admit = "admitted" THEN "handler" ELSE "end"

\* lines 350-358: the local limiter, run to its end.  The new request record
\* and the new cache of its process.
LocalLimiter(r, rec) ==
    LET p   == rec.proc
        key == <<rec.ident, rec.window>>
        cnt == CacheGet(rate_cache[p], key) + 1
    IN  /\ rate_cache' = [rate_cache EXCEPT ![p] = CacheGC(CacheSet(@, key, cnt), rec.window)]
        /\ req' = [req EXCEPT ![r] = [rec EXCEPT
                     !.cnt = cnt,
                     !.admit = IF OverLimit(cnt) THEN "rejected" ELSE "admitted",
                     !.status = IF OverLimit(cnt) THEN 429 ELSE rec.status,
                     !.pc = AfterDependencies(IF OverLimit(cnt) THEN "rejected" ELSE "admitted")]]

\* The event loop of process p is inside rate_limit_dep of some request.
LoopBusy(p) == \E q \in Reqs : req[q].proc = p /\ req[q].pc \in {"rate_update", "rate_put"}

NewReq == [pc |-> "new", proc |-> "p1", ident |-> None, kind |-> "approve",
           amount_out_min |-> None, slippage_bps |-> 0, aom |-> None,
           window |-> None, backend |-> "none", count |-> None, cnt |-> None,
           admit |-> "pending", status |-> None,
           quotes |-> 0, quoted_out |-> None, tx_min |-> None,
           nonce |-> None, signed |-> 0, sent |-> 0,
           deadline |-> None, amount_in |-> 1000, tokens |-> <<1, 2>>,
           fees |-> <<3000>>, support_fee_on_transfer |-> FALSE,
           tx_deadline |-> None, tx_fn |-> "none", allocs |-> 0,
           sent_to |-> "none"]

\* lines 319-325: a request reaches rate_limit_dep; without a rate table the
\* local limiter decides it at once.
RateLimitBegin(r, p, api_key, host, kind, aom, bps) ==
    /\ req[r].pc = "new"
    /\ \A q \in Reqs : q < r => req[q].pc # "new"
    /\ ~LoopBusy(p)
    /\ LET rec == [req[r] EXCEPT !.proc = p, !.ident = Ident(api_key, host),
                                 !.kind = kind, !.amount_out_min = aom, !.aom = aom,
                                 !.slippage_bps = bps,
                                 !.window = WindowOf(now)]
       IN  IF rate_on
           THEN /\ req' = [req EXCEPT ![r] = [rec EXCEPT !.pc = "rate_update"]]
                /\ UNCHANGED rate_cache
           ELSE LocalLimiter(r, rec)
    /\ UNCHANGED <<now, rate_table, rate_on, chain_count, pool, alloc_log, private_rpc, path_call, fee_call>>

\* lines 328-334: update_item.  SET window = if_not_exists(window, :w),
\* count = if_not_exists(count, 0) + 1; ReturnValues ALL_NEW.
UpdateItem(item, window) ==
    IF item = NoItem THEN [window |-> window, count |-> 1]
    ELSE [window |-> item.window, count |-> item.count + 1]

\* lines 335-343 after update_item returned `item`: same window.
RateUpdateSame(r) ==
    /\ req[r].pc = "rate_update"
    /\ LET rk   == _rate_key(req[r].ident)
           item == UpdateItem(rate_table[rk], req[r].window)
       IN  /\ item.window = req[r].window
           /\ rate_table' = [rate_table EXCEPT ![rk] = item]
           /\ LET rec == [req[r] EXCEPT !.backend = "ok", !.count = item.count]
              IN  IF OverLimit(item.count)
                  THEN /\ req' = [req EXCEPT ![r] = [rec EXCEPT
                                     !.admit = "rejected", !.status = 429,
                                     !.pc = AfterDependencies("rejected")]]
                       /\ UNCHANGED rate_cache
                  ELSE LocalLimiter(r, rec)
    /\ UNCHANGED <<now, rate_on, chain_count, pool, alloc_log, private_rpc, path_call, fee_call>>

\* lines 335-338: update_item returned an item of another window; put_item follows.
RateUpdateOther(r) ==
    /\ req[r].pc = "rate_update"
    /\ LET rk   == _rate_key(req[r].ident)
           item == UpdateItem(rate_table[rk], req[r].window)
       IN  /\ item.window # req[r].window
           /\ rate_table' = [rate_table EXCEPT ![rk] = item]
           /\ req' = [req EXCEPT ![r].pc = "rate_put"]
    /\ UNCHANGED <<now, rate_on, rate_cache, chain_count, pool, alloc_log, private_rpc, path_call, fee_call>>

\* lines 338-343: put_item resets the item; count = 1.
RatePutItem(r) ==
    /\ req[r].pc = "rate_put"
    /\ rate_table' = [rate_table EXCEPT ![_rate_key(req[r].ident)] =
                         [window |-> req[r].window, count |-> 1]]
    /\ LET rec == [req[r] EXCEPT !.backend = "ok", !.count = 1]
       IN  IF OverLimit(1)
           THEN /\ req' = [req EXCEPT ![r] = [rec EXCEPT
                              !.admit = "rejected", !.status = 429,
                                     !.pc = AfterDependencies("rejected")]]
                /\ UNCHANGED rate_cache
           ELSE LocalLimiter(r, rec)
    /\ UNCHANGED <<now, rate_on, chain_count, pool, alloc_log, private_rpc, path_call, fee_call>>

\* Faulty variant of RateTableError: the failure admits the request (fails open).
RateTableErrorFailOpen(r) ==
    /\ req[r].pc \in {"rate_update", "rate_put"}
    /\ req' = [req EXCEPT ![r].backend = "error", ![r].admit = "admitted",
                          ![r].pc = "handler"]
    /\ UNCHANGED <<now, rate_table, rate_on, rate_cache, chain_count, pool, alloc_log, private_rpc, path_call, fee_call>>

\* lines 346-348: update_item or put_item raised; the warning is logged and the
\* local limiter decides.
RateTableError(r) ==
    /\ req[r].pc \in {"rate_update", "rate_put"}
    /\ LocalLimiter(r, [req[r] EXCEPT !.backend = "error"])
    /\ UNCHANGED <<now, rate_table, rate_on, chain_count, pool, alloc_log, private_rpc, path_call, fee_call>>

\* ------------------------------------------------------- V3 path encoding (281-290)

\* Addresses are their 20 raw bytes; BadAddr is a string that
\* Web3.to_checksum_address refuses (19 bytes).
Addr(i) == [j \in 1..20 |-> (16 * i + j) % 256]
BadAddr == [j \in 1..19 |-> j]
IsAddress(a) == Len(a) = 20

NoPath == <<>>
PathResult(err, path) == [err |-> err, path |-> path]

\* Faulty variant of FeeBytes: the three bytes in little-endian order.
FeeBytesLittleEndian(fee) == <<fee % 256, (fee \div 256) % 256, fee \div 65536>>

\* line 288: int(fees[i]).to_bytes(3, 'big')
FeeBytes(fee) == <<fee \div 65536, (fee \div 256) % 256, fee % 256>>

\* to_bytes(3, 'big') raises OverflowError outside [0, 2^24)
FeeFits(fee) == 0 <= fee /\ fee < 16777216

\* lines 286-288: the loop over the fees, from hop i on
RECURSIVE PathHops(_, _, _)
PathHops(tokens, fees, i) ==
    IF i > Len(fees) THEN <<>>
    ELSE tokens[i] \o FeeBytes(fees[i]) \o PathHops(tokens, fees, i + 1)

\* encode_v3_path (282-290)
encode_v3_path(tokens, fees) ==
    IF Len(fees) # Len(tokens) - 1
    THEN PathResult("ValueError", NoPath)
    ELSE IF \E i \in 1..Len(tokens) : ~IsAddress(tokens[i])
    THEN PathResult("ValueError", NoPath)
    ELSE IF \E i \in 1..Len(fees) : ~FeeFits(fees[i])
    THEN PathResult("OverflowError", NoPath)
    ELSE PathResult("none", PathHops(tokens, fees, 1) \o tokens[Len(tokens)])

NoPathCall == [tokens |-> <<>>, fees |-> <<>>, state |-> "idle",
               result |-> PathResult("none", NoPath)]

\* One call of encode_v3_path returns or raises.
EncodeCall ==
    /\ path_call.state = "called"
    /\ path_call' = [path_call EXCEPT !.state = "returned",
                        !.result = encode_v3_path(path_call.tokens, path_call.fees)]
    /\ UNCHANGED <<now, rate_table, rate_on, rate_cache, req, chain_count, pool,
                   alloc_log, private_rpc, fee_call>>

\* ------------------------------------------------------- gas fees (238-250)

\* w3.to_wei(1, 'gwei')
GWEI == 1000000000

RECURSIVE SumSeq(_)
SumSeq(s) == IF s = <<>> THEN 0 ELSE Head(s) + SumSeq(Tail(s))

FeeResult(err, max_fee, tip) == [err |-> err, max_fee |-> max_fee, tip |-> tip]

\* Faulty variant of FeeHistoryFees: the oldest base fee instead of the latest.
FeeHistoryFeesOldestBase(base, rewards) ==
    LET tip == IF rewards # <<>> THEN SumSeq(rewards) \div Len(rewards) ELSE GWEI
    IN  FeeResult("none", base[1] + tip * 2, tip)

\* lines 242-247: the pair from a fee history with base fees `base` and, for
\* each block, the reward r[0] of the 15th percentile in `rewards`.
\* int(sum / max(len, 1)) is the quotient rounded towards zero.
FeeHistoryFees(base, rewards) ==
    LET tip == IF rewards # <<>> THEN SumSeq(rewards) \div Len(rewards) ELSE GWEI
    IN  FeeResult("none", base[Len(base)] + tip * 2, tip)

\* suggest_fees (239-250).  fh_ok: w3.eth.fee_history returned; an empty
\* baseFeePerGas raises IndexError inside the try block.  gp_ok: w3.eth.gas_price
\* returned; its exception is raised in the except block and leaves suggest_fees.
suggest_fees(node) ==
    IF node.fh_ok /\ node.base # <<>>
    THEN FeeHistoryFees(node.base, node.rewards)
    ELSE IF node.gp_ok
    THEN FeeResult("none", node.gas_price, GWEI)
    ELSE FeeResult("raised", None, None)

NoFeeNode == [fh_ok |-> TRUE, base |-> <<>>, rewards |-> <<>>, gp_ok |-> TRUE, gas_price |-> 0]
NoFeeCall == [node |-> NoFeeNode, state |-> "idle", result |-> FeeResult("none", None, None)]

\* One call of suggest_fees returns or raises.
SuggestFeesCall ==
    /\ fee_call.state = "called"
    /\ fee_call' = [fee_call EXCEPT !.state = "returned",
                       !.result = suggest_fees(fee_call.node)]
    /\ UNCHANGED <<now, rate_table, rate_on, rate_cache, req, chain_count, pool,
                   alloc_log, private_rpc, path_call>>

\* ------------------------------------------------------- endpoints (403-606)

\* Faulty variant of NeedsQuote: every swap quotes.
NeedsQuoteAlways(rec) == rec.kind \in SwapKinds

\* lines 435, 478, 525: `if amount_out_min is None` in the three swaps
NeedsQuote(rec) == rec.kind \in SwapKinds /\ rec.amount_out_min = None

\* lines 228-229: now_plus
now_plus(seconds) == now + seconds

\* lines 432, 493: `body.deadline or now_plus(300)`; Python's `or` takes the
\* right operand when the left one is None or 0.
DeadlineOrDefault(deadline) ==
    IF deadline = None \/ deadline = 0 THEN now_plus(300) ELSE deadline

\* The deadline a swap encodes when its transaction is built now: v2_swap has
\* read it at line 432, before the quote; v3_swap reads it at line 493;
\* v3_swap_multi encodes now_plus(300) whatever the body says (line 533).
BuildDeadline(rec) ==
    IF rec.kind = "v2_swap" /\ rec.tx_deadline # None THEN rec.tx_deadline
    ELSE IF rec.kind \in {"v2_swap", "v3_swap"} THEN DeadlineOrDefault(rec.deadline)
    ELSE IF rec.kind = "v3_swap_multi" THEN now_plus(300)
    ELSE None

\* Faulty variant of RouterFn: a two-token v3_swap_multi is sent as a single hop.
RouterFnByShape(rec) ==
    IF rec.kind = "v2_swap"
    THEN IF rec.support_fee_on_transfer
         THEN "swapExactTokensForTokensSupportingFeeOnTransferTokens"
         ELSE "swapExactTokensForTokens"
    ELSE IF rec.kind = "v3_swap" THEN "exactInputSingle"
    ELSE IF rec.kind = "v3_swap_multi"
    THEN IF Len(rec.tokens) = 2 THEN "exactInputSingle" ELSE "exactInput"
    ELSE rec.kind

\* lines 440, 499, 537 (409 and 602 for the other transactions): the contract
\* function whose call the endpoint builds.
RouterFn(rec) ==
    IF rec.kind = "v2_swap"
    THEN IF rec.support_fee_on_transfer
         THEN "swapExactTokensForTokensSupportingFeeOnTransferTokens"
         ELSE "swapExactTokensForTokens"
    ELSE IF rec.kind = "v3_swap" THEN "exactInputSingle"
    ELSE IF rec.kind = "v3_swap_multi" THEN "exactInput"
    ELSE rec.kind

\* lines 526, 529: encode_v3_path(body.tokens, body.fees) in v3_swap_multi
RoutePath(rec) == encode_v3_path([i \in 1..Len(rec.tokens) |-> Addr(rec.tokens[i])], rec.fees)
PathAccepted(rec) == rec.kind = "v3_swap_multi" => RoutePath(rec).err = "none"

\* v3_swap_multi: encode_v3_path raised (line 526 or 529), inside the try
\* block: HTTPException(400) at 544.
PathRaises(r) ==
    /\ req[r].pc = "handler"
    /\ ~PathAccepted(req[r])
    /\ req' = [req EXCEPT ![r].status = 400, ![r].pc = "end"]
    /\ UNCHANGED <<now, rate_table, rate_on, rate_cache, chain_count, pool, alloc_log, private_rpc, path_call, fee_call>>

\* Faulty variant of SlippageMin: the quotient rounded up.
SlippageMinCeil(quoted_out, slippage_bps) ==
    LET m  == 10000 - slippage_bps
        hi == quoted_out \div 10000
        lo == quoted_out % 10000
    IN  hi * m + ((lo * m + 9999) \div 10000)

\* lines 438, 486, 528: quoted_out * (10_000 - slippage_bps) // 10_000 on
\* Python's unbounded integers.  With quoted_out = 10000*hi + lo the product
\* is 10000*hi*m + lo*m, so the floor quotient is hi*m + (lo*m) // 10000;
\* written this way no intermediate value leaves TLC's 32-bit integers.
SlippageMin(quoted_out, slippage_bps) ==
    LET m  == 10000 - slippage_bps
        hi == quoted_out \div 10000
        lo == quoted_out % 10000
    IN  hi * m + ((lo * m) \div 10000)

\* The quoter call of a swap returned `out` (lines 436-438, 479-486, 526-528);
\* the local amount_out_min becomes the slippage floor.
QuoteReturns(r, out) ==
    /\ req[r].pc = "handler"
    /\ NeedsQuote(req[r])
    /\ PathAccepted(req[r])
    /\ req' = [req EXCEPT ![r].quotes = @ + 1,
                          ![r].quoted_out = out,
                          ![r].aom = SlippageMin(out, req[r].slippage_bps),
                          ![r].tx_deadline = IF req[r].kind = "v2_swap"
                                             THEN DeadlineOrDefault(req[r].deadline)
                                             ELSE @,
                          ![r].pc = "build"]
    /\ UNCHANGED <<now, rate_table, rate_on, rate_cache, chain_count, pool, alloc_log, private_rpc, path_call, fee_call>>

\* The quoter call reverted.  v2_swap and v3_swap quote outside their try
\* block (lines 436, 479): the exception leaves the endpoint, a 500.
\* v3_swap_multi quotes inside it (line 527): HTTPException(400) at 544.
QuoteReverts(r) ==
    /\ req[r].pc = "handler"
    /\ NeedsQuote(req[r])
    /\ PathAccepted(req[r])
    /\ req' = [req EXCEPT ![r].quotes = @ + 1,
                          ![r].status = IF req[r].kind = "v3_swap_multi" THEN 400 ELSE 500,
                          ![r].pc = "end"]
    /\ UNCHANGED <<now, rate_table, rate_on, rate_cache, chain_count, pool, alloc_log, private_rpc, path_call, fee_call>>

\* line 255: tx.setdefault('nonce', w3.eth.get_transaction_count(acct.address))
NonceFor(count) == count

\* The endpoint is about to build its transaction: no quote is needed or the
\* quote has returned, and v3_swap_multi has its path.
Building(rec) ==
    /\ \/ rec.pc = "build"
       \/ rec.pc = "handler" /\ ~NeedsQuote(rec)
    /\ PathAccepted(rec)

\* build_transaction (its gas estimate of a call that would revert, 441-449,
\* 499, 537) or with_fees_and_nonce (suggest_fees at 253, get_transaction_count
\* at 255) raised: the transaction has no nonce yet.  erc20_permit_submit has no
\* try block; the other endpoints answer HTTPException(400).
BuildRaises(r) ==
    /\ Building(req[r])
    /\ req' = [req EXCEPT ![r].status = IF req[r].kind = "erc20_permit_submit"
                                        THEN 500 ELSE 400,
                          ![r].pc = "end"]
    /\ UNCHANGED <<now, rate_table, rate_on, rate_cache, chain_count, pool, alloc_log, private_rpc, path_call, fee_call>>

\* The transaction is built (409, 441-449, 499, 537, 602), a swap's with
\* int(amount_out_min) as its minimum output, and with_fees_and_nonce (252-259)
\* fills it: the nonce is the signer's transaction count read now.
WithFeesAndNonce(r) ==
    /\ Building(req[r])
    /\ req' = [req EXCEPT ![r].tx_min = IF req[r].kind \in SwapKinds THEN req[r].aom ELSE None,
                          ![r].tx_deadline = BuildDeadline(req[r]),
                          ![r].tx_fn = RouterFn(req[r]),
                          ![r].nonce = NonceFor(chain_count),
                          ![r].allocs = @ + 1,
                          ![r].pc = "send"]
    /\ alloc_log' = Append(alloc_log, NonceFor(chain_count))
    /\ UNCHANGED <<now, rate_table, rate_on, rate_cache, chain_count, pool, private_rpc, path_call, fee_call>>

\* lines 271-276: the endpoint send_signed submits to.  relay_ok: constructing
\* the relay's Web3 object did not raise; when it raises, provider stays w3.
Provider(relay_ok) == IF private_rpc /\ relay_ok THEN "private" ELSE "primary"

\* lines 269-279, send_raw_transaction accepted the signed transaction.  A node
\* refuses a nonce below the account's transaction count.
SendSignedOk(r) ==
    /\ req[r].pc = "send"
    /\ req[r].nonce >= chain_count
    /\ \E relay_ok \in BOOLEAN :
          req' = [req EXCEPT ![r].signed = @ + 1, ![r].sent = @ + 1,
                             ![r].sent_to = Provider(relay_ok),
                             ![r].status = 200, ![r].pc = "end"]
    /\ pool' = pool \cup {req[r].nonce}
    /\ UNCHANGED <<now, rate_table, rate_on, rate_cache, chain_count, alloc_log, private_rpc, path_call, fee_call>>

\* Faulty variant of SendSignedFails: a failed submission is signed and sent
\* once more.
SendSignedFailsResent(r) ==
    /\ req[r].pc = "send"
    /\ \E relay_ok \in BOOLEAN :
          req' = [req EXCEPT ![r].signed = @ + 1, ![r].sent = @ + 1,
                             ![r].sent_to = Provider(relay_ok),
                             ![r].status = 400,
                             ![r].pc = IF req[r].sent = 0 THEN "send" ELSE "end"]
    /\ UNCHANGED <<now, rate_table, rate_on, rate_cache, chain_count, pool, alloc_log, private_rpc, path_call, fee_call>>

\* lines 269-279, send_raw_transaction raised.  erc20_permit_submit has no try
\* block (603-606); the other endpoints answer HTTPException(400).
SendSignedFails(r) ==
    /\ req[r].pc = "send"
    /\ \E relay_ok \in BOOLEAN :
          req' = [req EXCEPT ![r].signed = @ + 1, ![r].sent = @ + 1,
                             ![r].sent_to = Provider(relay_ok),
                             ![r].status = IF req[r].kind = "erc20_permit_submit"
                                           THEN 500 ELSE 400,
                             ![r].pc = "end"]
    /\ UNCHANGED <<now, rate_table, rate_on, rate_cache, chain_count, pool, alloc_log, private_rpc, path_call, fee_call>>

\* The chain includes the signer's next pending transaction in a block.
Mine ==
    /\ chain_count \in pool
    /\ chain_count' = chain_count + 1
    /\ pool' = pool \ {chain_count}
    /\ UNCHANGED <<now, rate_table, rate_on, rate_cache, req, alloc_log, private_rpc, path_call, fee_call>>

\* time passes
Tick ==
    /\ now < MaxNow
    /\ now' = now + 1
    /\ UNCHANGED <<rate_table, rate_on, rate_cache, req, chain_count, pool, alloc_log, private_rpc, path_call, fee_call>>

Init ==
    /\ now = 0
    /\ rate_on \in BOOLEAN
    /\ rate_table = [k \in {_rate_key(Ident(a, h)) : a \in ApiKeys, h \in Hosts} |-> NoItem]
    /\ rate_cache = [p \in Procs |-> EmptyCache]
    /\ req = [r \in Reqs |-> NewReq]
    /\ chain_count = StartCount
    /\ pool = {}
    /\ alloc_log = <<>>
    /\ private_rpc = FALSE
    /\ path_call = NoPathCall
    /\ fee_call = NoFeeCall

RateSteps ==
    \/ \E r \in Reqs : RateUpdateSame(r)
    \/ \E r \in Reqs : RateUpdateOther(r)
    \/ \E r \in Reqs : RatePutItem(r)
    \/ \E r \in Reqs : RateTableError(r)
    \/ Tick

\* The admission controller alone, over several processes and identities.
Next ==
    \/ \E r \in Reqs, p \in Procs, a \in ApiKeys, h \in Hosts :
          RateLimitBegin(r, p, a, h, "approve", None, 50)
    \/ RateSteps

Spec == Init /\ [][Next]_vars

\* One process serving transaction-sending requests of one caller.
TxNext ==
    \/ \E r \in 1..NumTxReqs, k \in TxKinds :
          RateLimitBegin(r, "p1", None, 201, k, None, 50)
    \/ RateSteps
    \/ \E r \in Reqs : QuoteReturns(r, 1000)
    \/ \E r \in Reqs : QuoteReverts(r)
    \/ \E r \in Reqs : BuildRaises(r)
    \/ \E r \in Reqs : WithFeesAndNonce(r)
    \/ \E r \in Reqs : SendSignedOk(r)
    \/ \E r \in Reqs : SendSignedFails(r)
    \/ Mine

TxSpec == Init /\ [][TxNext]_vars

\* The same process and caller with requests of two endpoints, one that quotes
\* and one that does not: rate_limit_dep is a dependency of the application
\* (line 361) and runs before every endpoint alike.
AdmitKinds == {"v2_swap", "approve"}

AdmitNext ==
    \/ \E r \in 1..NumTxReqs, k \in AdmitKinds :
          RateLimitBegin(r, "p1", None, 201, k, None, 50)
    \/ RateSteps
    \/ \E r \in Reqs : QuoteReturns(r, 1000)
    \/ \E r \in Reqs : QuoteReverts(r)
    \/ \E r \in Reqs : BuildRaises(r)
    \/ \E r \in Reqs : WithFeesAndNonce(r)
    \/ \E r \in Reqs : SendSignedOk(r)
    \/ \E r \in Reqs : SendSignedFails(r)
    \/ Mine

AdmitSpec == Init /\ [][AdmitNext]_vars

\* One swap request, admitted by the local limiter as the first of its
\* window, with its body and the quoter's answer drawn from wider sets.
SwapMins == {None, 0, 1, 12345}
SwapBps == {0, 1, 50, 9999, 10000}
QuoteOuts == {0, 1, 3, 199, 10001, 1000000, 2000000}

SwapInit ==
    /\ now = 0
    /\ rate_on = FALSE
    /\ rate_table = [k \in {_rate_key(Ident(a, h)) : a \in ApiKeys, h \in Hosts} |-> NoItem]
    /\ rate_cache = [p \in Procs |-> IF p = "p1" THEN CacheSet(EmptyCache, <<201, 0>>, 1)
                                     ELSE EmptyCache]
    /\ \E k \in SwapKinds, m \in SwapMins, b \in SwapBps :
          req = [r \in Reqs |->
                   IF r = 1
                   THEN [NewReq EXCEPT !.pc = AfterDependencies("admitted"),
                                       !.ident = 201, !.kind = k,
                                       !.amount_out_min = m, !.aom = m,
                                       !.slippage_bps = b, !.window = 0,
                                       !.cnt = 1, !.admit = "admitted"]
                   ELSE NewReq]
    /\ chain_count = StartCount
    /\ pool = {}
    /\ alloc_log = <<>>
    /\ private_rpc = FALSE
    /\ path_call = NoPathCall
    /\ fee_call = NoFeeCall

SwapNext ==
    \/ \E r \in Reqs, out \in QuoteOuts : QuoteReturns(r, out)
    \/ \E r \in Reqs : QuoteReverts(r)
    \/ \E r \in Reqs : BuildRaises(r)
    \/ \E r \in Reqs : WithFeesAndNonce(r)
    \/ \E r \in Reqs : SendSignedOk(r)
    \/ \E r \in Reqs : SendSignedFails(r)
    \/ Mine

SwapSpec == SwapInit /\ [][SwapNext]_vars

\* One swap request, admitted as the first of its window at any time, with
\* its deadline, amount, route and fee-on-transfer flag drawn from the values
\* the request schemas (677-716) accept, with or without a private relay.
IntentDeadlines == {None, 0, 1, 1000}
IntentAmounts == {0, 1000}
IntentMins == {None, 1}
IntentRoutes(kind) ==
    IF kind = "v2_swap"
    THEN {[tokens |-> t, fees |-> <<>>] : t \in {<<1>>, <<1, 2>>, <<1, 2, 3>>}}
    ELSE IF kind = "v3_swap"
    THEN {[tokens |-> <<1, 2>>, fees |-> <<3000>>]}
    ELSE {[tokens |-> t, fees |-> f] : t \in {<<1>>, <<1, 2>>, <<1, 2, 3>>},
                                       f \in {<<>>, <<3000>>, <<3000, 500>>}}

IntentInit ==
    /\ now \in 0..MaxNow
    /\ rate_on = FALSE
    /\ rate_table = [k \in {_rate_key(Ident(a, h)) : a \in ApiKeys, h \in Hosts} |-> NoItem]
    /\ rate_cache = [p \in Procs |-> IF p = "p1" THEN CacheSet(EmptyCache, <<201, WindowOf(now)>>, 1)
                                     ELSE EmptyCache]
    /\ \E k \in SwapKinds, m \in IntentMins, d \in IntentDeadlines, a \in IntentAmounts,
          sf \in BOOLEAN :
          \E rt \in IntentRoutes(k) :
             /\ sf => k = "v2_swap"
             /\ req = [r \in Reqs |->
                   IF r = 1
                   THEN [NewReq EXCEPT !.pc = AfterDependencies("admitted"),
                                       !.ident = 201, !.kind = k,
                                       !.amount_out_min = m, !.aom = m,
                                       !.slippage_bps = 50, !.window = WindowOf(now),
                                       !.cnt = 1, !.admit = "admitted",
                                       !.deadline = d, !.amount_in = a,
                                       !.tokens = rt.tokens, !.fees = rt.fees,
                                       !.support_fee_on_transfer = sf]
                   ELSE NewReq]
    /\ chain_count = StartCount
    /\ pool = {}
    /\ alloc_log = <<>>
    /\ private_rpc \in BOOLEAN
    /\ path_call = NoPathCall
    /\ fee_call = NoFeeCall

IntentNext ==
    \/ \E r \in Reqs : PathRaises(r)
    \/ \E r \in Reqs : QuoteReturns(r, 1000)
    \/ \E r \in Reqs : QuoteReverts(r)
    \/ \E r \in Reqs : BuildRaises(r)
    \/ \E r \in Reqs : WithFeesAndNonce(r)
    \/ \E r \in Reqs : SendSignedOk(r)
    \/ \E r \in Reqs : SendSignedFails(r)
    \/ Mine
    \/ Tick

IntentSpec == IntentInit /\ [][IntentNext]_vars

\* The service idle: no request has arrived.
Idle ==
    /\ now = 0
    /\ rate_on = FALSE
    /\ rate_table = [k \in {_rate_key(Ident(a, h)) : a \in ApiKeys, h \in Hosts} |-> NoItem]
    /\ rate_cache = [p \in Procs |-> EmptyCache]
    /\ req = [r \in Reqs |-> NewReq]
    /\ chain_count = StartCount
    /\ pool = {}
    /\ alloc_log = <<>>
    /\ private_rpc = FALSE

\* Calls of encode_v3_path with up to MaxTokens tokens and MaxTokens - 1 fees.
MaxTokens == 5
SeqsUpTo(S, n) == UNION {[1..k -> S] : k \in 0..n}
PathTokens == SeqsUpTo({Addr(1), Addr(2)}, MaxTokens)
                 \cup {<<Addr(1), BadAddr>>, <<BadAddr, Addr(1), Addr(2)>>}
PathFees == SeqsUpTo({500, 16777215}, MaxTokens - 1)
               \cup {<<16777216>>, <<3000, 0 - 1>>}

PathInit ==
    /\ Idle
    /\ fee_call = NoFeeCall
    /\ \E t \in PathTokens, f \in PathFees :
          path_call = [NoPathCall EXCEPT !.tokens = t, !.fees = f, !.state = "called"]

PathNext == EncodeCall

PathSpec == PathInit /\ [][PathNext]_vars

\* Calls of suggest_fees against a node that answers or fails.
FeeBases == {<<>>, <<7>>, <<7, 100>>, <<100, 7>>}
FeeRewards == {<<>>, <<3>>, <<1, 2>>, <<1, 2, 4>>, <<5, 5, 5, 5, 6>>}
GasPrices == {1, 5, 2000000000}

FeeInit ==
    /\ Idle
    /\ path_call = NoPathCall
    /\ \E fh \in BOOLEAN, b \in FeeBases, rw \in FeeRewards, gp \in BOOLEAN, g \in GasPrices :
          fee_call = [NoFeeCall EXCEPT !.state = "called",
                         !.node = [fh_ok |-> fh, base |-> b, rewards |-> rw,
                                   gp_ok |-> gp, gas_price |-> g]]

FeeNext == SuggestFeesCall

FeeSpec == FeeInit /\ [][FeeNext]_vars

\* ------------------------------------------------------------ properties

\* rate_limit_dep has answered request r.
Decided(r) == req[r].admit # "pending"

\* The requests up to r that the local limiter of r's process counted for r's
\* (identity, window).  A process answers its requests in the order of their
\* numbers.
LocalBefore(r) ==
    {q \in Reqs : /\ q <= r
                  /\ req[q].cnt # None
                  /\ req[q].proc = req[r].proc
                  /\ req[q].ident = req[r].ident
                  /\ req[q].window = req[r].window}

\* send_signed of request r raised.
SendFailed(r) == req[r].pc = "end" /\ req[r].sent > 0 /\ req[r].status # 200

\* C1: requests that hold a nonce at the same time (allocated, transaction
\* not yet submitted) hold different nonces, and N of them hold exactly the
\* N consecutive nonces from the smallest one on.
C1_ConcurrentNoncesDistinct ==
    LET holders == {r \in Reqs : req[r].pc = "send"}
        held    == {req[r].nonce : r \in holders}
    IN  holders # {} =>
          LET s == CHOOSE n \in held : \A m \in held : n <= m
          IN  held = s .. (s + Cardinality(holders) - 1)

\* C2: a nonce that was allocated to a request whose submission failed is
\* never allocated to a later request.
C2_NoReuseAfterFailedSend ==
    [][\A r, q \in Reqs :
          (req[r].nonce = None /\ req'[r].nonce # None /\ SendFailed(q))
             => req'[r].nonce # req[q].nonce]_vars

\* C3: the k-th allocation of the process returns seed + (k-1), the seed
\* being the nonce of the first allocation.
C3_KthAllocationIsSeedPlusK ==
    \A k \in 1..Len(alloc_log) : alloc_log[k] = alloc_log[1] + (k - 1)

\* C4: without a rate table, the k-th request of an identity that a process
\* answers in a window is counted k and admitted exactly when k <= RATE_LIMIT
\* (so the first of a new window is counted 1 and admitted), and the cache of
\* the process keeps the count of the window it answered last.
C4_LocalLimiterCounts ==
    ~rate_on =>
      \A r \in Reqs : Decided(r) =>
         /\ req[r].cnt = Cardinality(LocalBefore(r))
         /\ (req[r].admit = "admitted") <=> (Cardinality(LocalBefore(r)) <= RATE_LIMIT)
         /\ (\A q \in Reqs : (Decided(q) /\ req[q].proc = req[r].proc)
                                => req[q].window <= req[r].window)
               => CacheGet(rate_cache[req[r].proc], <<req[r].ident, req[r].window>>)
                    = Cardinality({q \in Reqs : /\ Decided(q)
                                                /\ req[q].proc = req[r].proc
                                                /\ req[q].ident = req[r].ident
                                                /\ req[q].window = req[r].window})

\* C4 witness: one identity in one process had RATE_LIMIT requests admitted
\* and the next rejected in a window, and its first request of the next
\* window admitted with count 1.
C4_Witness ==
    /\ ~rate_on
    /\ \E r1, r2, r3 \in Reqs :
         /\ r1 < r2 /\ r2 < r3
         /\ Decided(r1) /\ Decided(r2) /\ Decided(r3)
         /\ req[r1].proc = req[r2].proc /\ req[r2].proc = req[r3].proc
         /\ req[r1].ident = req[r2].ident /\ req[r2].ident = req[r3].ident
         /\ req[r1].window = req[r2].window
         /\ req[r1].cnt = RATE_LIMIT /\ req[r1].admit = "admitted"
         /\ req[r2].cnt = RATE_LIMIT + 1 /\ req[r2].admit = "rejected"
         /\ req[r3].window = req[r2].window + 1
         /\ req[r3].cnt = 1 /\ req[r3].admit = "admitted"

\* C5: a request whose rate-table call succeeded with a count within the
\* limit is admitted.
C5_BackendAuthoritative ==
    \A r \in Reqs :
       (Decided(r) /\ req[r].backend = "ok" /\ req[r].count <= RATE_LIMIT)
          => req[r].admit = "admitted"

\* C6: a request whose rate-table call failed is counted by the local limiter
\* of its process (one more than the requests counted before it for the same
\* identity and window) and rejected exactly when that count exceeds
\* RATE_LIMIT.
C6_FallbackIsLocalLimiter ==
    \A r \in Reqs :
       (Decided(r) /\ req[r].backend = "error") =>
          /\ req[r].cnt = Cardinality(LocalBefore(r))
          /\ (req[r].admit = "rejected") <=> (req[r].cnt > RATE_LIMIT)

\* C6 witness: after failed rate-table calls, one request was admitted and a
\* later one of the same identity and window rejected by the local count.
C6_Witness ==
    \E r1, r2 \in Reqs :
       /\ req[r1].backend = "error" /\ req[r1].admit = "admitted"
       /\ req[r2].backend = "error" /\ req[r2].admit = "rejected"
       /\ req[r2].cnt = RATE_LIMIT + 1
       /\ r1 \in LocalBefore(r2)

\* C7: with the rate table, at most RATE_LIMIT requests of one identity whose
\* rate-table calls succeeded are admitted within one window.
C7_SharedWindowLimit ==
    rate_on =>
      \A r \in Reqs :
         Cardinality({q \in Reqs : /\ req[q].admit = "admitted"
                                   /\ req[q].backend = "ok"
                                   /\ req[q].ident = req[r].ident
                                   /\ req[q].window = req[r].window}) <= RATE_LIMIT

\* C8: a request that rate_limit_dep has not admitted has called no quoter,
\* holds no nonce, and has signed and submitted nothing.
C8_RejectedDoesNoWork ==
    \A r \in Reqs :
       req[r].admit # "admitted" =>
          /\ req[r].quotes = 0
          /\ req[r].nonce = None
          /\ req[r].signed = 0
          /\ req[r].sent = 0

\* C8 witness: a request was rejected and has ended while another request was
\* quoted, given a nonce and submitted.
C8_Witness ==
    \E r1, r2 \in Reqs :
       /\ req[r1].admit = "rejected" /\ req[r1].pc = "end" /\ req[r1].status = 429
       /\ req[r2].admit = "admitted" /\ req[r2].quotes = 1 /\ req[r2].sent = 1

\* The swaps whose transaction was built from a quote.
BuiltFromQuote(r) ==
    req[r].kind \in SwapKinds /\ req[r].amount_out_min = None /\ req[r].tx_min # None

\* C9: a swap without explicit minimum encodes
\* quoted_out * (10000 - slippage_bps) \div 10000 (evaluated directly where
\* the product stays within TLC's integers); the minimum lies between 0
\* and the quote, equals the quote at 0 bps, and is 995000 and 1990000 for
\* quotes of 1000000 and 2000000 at 50 bps.
C9_SlippageFloor ==
    \A r \in Reqs : BuiltFromQuote(r) =>
       LET q == req[r].quoted_out
           b == req[r].slippage_bps
           m == req[r].tx_min
       IN  /\ 0 <= m /\ m <= q
           /\ b = 0 => m = q
           /\ q <= 200000 => m = (q * (10000 - b)) \div 10000
           /\ (q = 1000000 /\ b = 50) => m = 995000
           /\ (q = 2000000 /\ b = 50) => m = 1990000
           /\ (q % 10000 = 0) => m = (q \div 10000) * (10000 - b)

\* C9 witness: a swap quoted 1000000 at 50 bps was built with minimum 995000.
C9_Witness ==
    \E r \in Reqs :
       /\ BuiltFromQuote(r)
       /\ req[r].quoted_out = 1000000 /\ req[r].slippage_bps = 50
       /\ req[r].tx_min = 995000

\* C10: a swap with an explicit amount_out_min calls no quoter and, once
\* built, encodes that value whatever slippage_bps is.
C10_ExplicitMinVerbatim ==
    \A r \in Reqs :
       (req[r].kind \in SwapKinds /\ req[r].amount_out_min # None) =>
          /\ req[r].quotes = 0
          /\ req[r].tx_fn # "none" => req[r].tx_min = req[r].amount_out_min

\* C10 witness: a multi-hop swap with explicit minimum 12345 and 50 bps was
\* submitted with that minimum.
C10_Witness ==
    \E r \in Reqs :
       /\ req[r].kind = "v3_swap_multi"
       /\ req[r].amount_out_min = 12345 /\ req[r].slippage_bps = 50
       /\ req[r].sent = 1 /\ req[r].tx_min = 12345

\* ---- encode_v3_path

PathReturned == path_call.state = "returned"

\* A route that meets the route type's invariants: 2 to 5 valid tokens, one
\* fee per hop, every fee in [0, 2^24).
WellFormedRoute(tokens, fees) ==
    /\ Len(tokens) >= 2 /\ Len(tokens) <= 5
    /\ Len(fees) = Len(tokens) - 1
    /\ \A i \in 1..Len(tokens) : IsAddress(tokens[i])
    /\ \A i \in 1..Len(fees) : fees[i] >= 0 /\ fees[i] < 16777216

\* Reading a path back: token i is the 20 bytes from offset 23 * (i - 1), fee i
\* the 3 bytes that follow it, most significant byte first.
DecodedToken(path, i) == SubSeq(path, 23 * (i - 1) + 1, 23 * (i - 1) + 20)
DecodedFee(path, i) ==
    path[23 * i - 2] * 65536 + path[23 * i - 1] * 256 + path[23 * i]

\* C13: encode_v3_path fails for every input whose fee count is not the token
\* count minus one and for every input with fewer than 2 tokens, the single
\* token with no fee and the empty token list included.
C13_ShortOrMismatchedRouteRaises ==
    (PathReturned /\ (Len(path_call.fees) # Len(path_call.tokens) - 1
                        \/ Len(path_call.tokens) < 2))
        => path_call.result.err # "none"

\* C14: for a route of 2 to 5 tokens with one fee per hop, encode_v3_path
\* returns 20 * tokens + 3 * (tokens - 1) bytes laid out token0, fee0, token1,
\* ..., each fee as 3 big-endian bytes, and decoding gives the tokens and fees back.
C14_PathLayoutRoundTrips ==
    (PathReturned /\ WellFormedRoute(path_call.tokens, path_call.fees)) =>
        LET n == Len(path_call.tokens)
            path == path_call.result.path
        IN  /\ path_call.result.err = "none"
            /\ Len(path) = 20 * n + 3 * (n - 1)
            /\ \A i \in 1..n : DecodedToken(path, i) = path_call.tokens[i]
            /\ \A i \in 1..(n - 1) : DecodedFee(path, i) = path_call.fees[i]

C14_Witness ==
    /\ PathReturned
    /\ Len(path_call.tokens) = 5
    /\ path_call.fees = <<500, 16777215, 500, 500>>
    /\ path_call.tokens[1] # path_call.tokens[2]
    /\ Len(path_call.result.path) = 112

\* ---- suggest_fees

FeesReturned == fee_call.state = "returned"
HistoryAvailable == fee_call.node.fh_ok /\ fee_call.node.base # <<>>

\* C16: suggest_fees never propagates an error: whatever chain query fails, it
\* returns a fallback pair.
C16_SuggestFeesNeverRaises ==
    FeesReturned => fee_call.result.err = "none"

C21_TipAtMostMaxFee ==
    (FeesReturned /\ fee_call.result.err = "none") =>
        fee_call.result.tip <= fee_call.result.max_fee

\* ---- the swap endpoints

Built(rec) == rec.kind \in SwapKinds /\ rec.tx_fn # "none"

\* C11: the deadline encoded in a swap is now + 300 s only when the request
\* carries no deadline; when it carries one, the encoded deadline is that value.
C11_CarriedDeadlineEncoded ==
    \A r \in Reqs :
        (Built(req[r]) /\ req[r].deadline # None) => req[r].tx_deadline = req[r].deadline

\* A deadline before the start of the window the request arrived in has passed
\* when the request arrives.
PastDeadline(rec) == rec.deadline # None /\ rec.deadline < rec.window * RATE_WINDOW
BadRoute(rec) ==
    \/ Len(rec.tokens) < 2
    \/ rec.kind = "v3_swap_multi" /\ Len(rec.fees) # Len(rec.tokens) - 1
InvalidIntent(rec) ==
    /\ rec.kind \in SwapKinds
    /\ rec.admit = "admitted"
    /\ PastDeadline(rec) \/ rec.amount_in = 0 \/ BadRoute(rec)

\* C12: a swap whose deadline has passed, whose amount in is zero or whose
\* route has fewer than 2 tokens or a fee count other than tokens - 1 fails with
\* a validation error: no nonce is allocated, nothing is signed or submitted.
C12_InvalidIntentRejected ==
    \A r \in Reqs :
        InvalidIntent(req[r]) =>
            /\ req[r].allocs = 0 /\ req[r].signed = 0 /\ req[r].sent = 0
            /\ req[r].pc = "end" => (req[r].status >= 400 /\ req[r].status < 500)

\* C15: with a private relay configured, send_signed never submits to the
\* primary endpoint.
C15_RelayNeverFallsBack ==
    private_rpc => \A r \in Reqs : req[r].sent_to # "primary"

QuoteReverted(rec) == rec.pc = "end" /\ rec.quotes > 0 /\ rec.quoted_out = None

\* C18: when the quoting call of a swap reverts, the request ends with a 4xx
\* answer, the quote is not retried, no nonce is allocated and nothing is
\* submitted.
C18_QuoteRevertIsClientError ==
    \A r \in Reqs :
        QuoteReverted(req[r]) =>
            /\ req[r].status >= 400 /\ req[r].status < 500
            /\ req[r].quotes = 1
            /\ req[r].allocs = 0 /\ req[r].sent = 0

SwapFn(rec) ==
    IF rec.support_fee_on_transfer
    THEN "swapExactTokensForTokensSupportingFeeOnTransferTokens"
    ELSE "swapExactTokensForTokens"

C20_NoRetryWithinRequest ==
    \A r \in Reqs :
        /\ req[r].quotes <= 1
        /\ req[r].allocs <= 1
        /\ req[r].signed <= 1
        /\ req[r].sent <= 1

C20_Witness ==
    \E r \in Reqs :
        /\ req[r].pc = "end" /\ req[r].status = 400
        /\ req[r].quotes = 1 /\ req[r].allocs = 1
        /\ req[r].signed = 1 /\ req[r].sent = 1

=============================================================================
